---- MODULE Spec2Model ----
(***************************************************************************)
(* Concurrent acquisition engine of yazio-exporter:                        *)
(*   - YazioClient.get            (client.py)       retrying HTTP GET      *)
(*   - fetch_concurrent           (utils.py)        bounded worker pool    *)
(*   - fetch_days_concurrent      (export_days.py)  dates x types batch    *)
(*   - auto_discover_months       (export_days.py)  month scanner          *)
(* Each part has its own specification over the shared variables:          *)
(*   SpecGet, Spec (fetch_concurrent), SpecDays, SpecDisc.                 *)
(***************************************************************************)
EXTENDS Integers, Sequences, FiniteSets, TLC

VARIABLES
    \* ---- YazioClient.get (one call) ----
    endpoint,       \* the endpoint argument, a sequence of characters
    max_retries,    \* the max_retries argument
    call,           \* the frame of the call: pc, attempt, last_error, response, raised, log
    session_headers, \* self.session.headers of the client
    sent,           \* the headers the requests of client.get went out with
    \* ---- fetch_concurrent ----
    batches,        \* the items lists of the consecutive fetch_concurrent calls
    max_workers,    \* the max_workers argument
    batch,          \* number of the fetch_concurrent call in progress
    pc,             \* position of the calling thread inside fetch_concurrent
    fut,            \* per call, the futures created by executor.submit, in submit order
    num_threads,    \* per call, the worker threads its pool has spawned
    yielded,        \* the futures as_completed has handed to the loop body
    results,        \* the results dict of the call in progress
    errors,         \* the errors dict of the call in progress
    invoked,        \* per call and item, how often fetch_fn was entered
    ret,            \* per call, the tuple handed back to the caller
    shut,           \* per call, whether the pool's shutdown(wait=True) has completed
    \* ---- fetch_days_concurrent ----
    dates,          \* the dates argument
    data_types,     \* the data_types argument
    days_pc,        \* position inside fetch_days_concurrent
    days_results,   \* the results dict of fetch_days_concurrent
    calls,          \* per future, the frame of the client.get call its task makes
    http_requests,  \* number of session.get requests issued
    days_raised,    \* the error leaving fetch_days_concurrent, if any
    \* ---- auto_discover_months ----
    start_year, start_month, today,
    current_year, current_month,
    all_dates,      \* the accumulator
    queries,        \* the discovery queries issued, in order
    answers,        \* what discover_month returned for each query, in order
    disc_pc,        \* position inside auto_discover_months
    disc_raised     \* the error leaving auto_discover_months, if any

getVars  == <<endpoint, max_retries, call, session_headers, sent>>
execVars == <<batches, max_workers, batch, pc, fut, num_threads, yielded,
              results, errors, invoked, ret, shut>>
daysVars == <<dates, data_types, days_pc, days_results, calls, http_requests,
              days_raised>>
discVars == <<start_year, start_month, today, current_year, current_month,
              all_dates, queries, answers, disc_pc, disc_raised>>
vars == <<getVars, execVars, daysVars, discVars>>

(***************************************************************************)
(* Bounds of the model                                                     *)
(***************************************************************************)
MaxRetriesArg == 3      \* max_retries ranges over 0..MaxRetriesArg
MaxItems == 3           \* longest items list of a fetch_concurrent call
MaxWorkers == 2         \* max_workers ranges over 1..MaxWorkers
MaxDates == 2           \* longest dates list of fetch_days_concurrent
MaxTypes == 2           \* longest data_types list of fetch_days_concurrent
MaxTasks == 4           \* most tasks (dates x types) of one fetch_days_concurrent call
MaxFaults == 3          \* most non-2xx answers the server gives during one batch
MaxSpan == 4            \* longest scan of auto_discover_months, in months

(***************************************************************************)
(* Program constants                                                       *)
(***************************************************************************)
MAX_RETRIES == 3
BASE_URL == <<"B">>
API_VERSION == <<"V">>

(***************************************************************************)
(* Helpers                                                                 *)
(***************************************************************************)
Range(s) == {s[i] : i \in 1..Len(s)}

SeqsUpTo(S, n) == UNION {[1..k -> S] : k \in 0..n}

Distinct(s) == \A i, j \in 1..Len(s) : i # j => s[i] # s[j]

RECURSIVE Pow2(_)
Pow2(n) == IF n <= 0 THEN 1 ELSE 2 * Pow2(n - 1)

(***************************************************************************)
(* YazioClient.get                                                         *)
(***************************************************************************)
\* Values of the model: a response is [status_code, body]; an exception is
\* [type, status_code, url, msg]; None is NoResponse / NoError.
NoResponse == [status_code |-> 0, body |-> "none"]
NoError == [type |-> "None", status_code |-> 0, url |-> <<>>, msg |-> "none"]

Statuses == {100, 200, 301, 401, 404, 500, 503, 600}

\* What response.json() of the body yields: not JSON at all, an object with
\* an "error" or "message" key, an object without, a list, null, a number.
BodyKinds == {"text", "obj_error", "obj_plain", "list", "null", "number"}

\* Outcome of one session.get: a response, requests.Timeout, or another
\* requests.RequestException (connection reset, DNS failure), whose class
\* stands in the body field.
Outcomes ==
    [kind : {"response"}, status_code : Statuses, body : BodyKinds]
    \cup {[kind |-> "timeout", status_code |-> 0, body |-> "none"],
          [kind |-> "transport", status_code |-> 0, body |-> "ConnectionError"],
          [kind |-> "transport", status_code |-> 0, body |-> "ChunkedEncodingError"]}

\* get_url: strips one leading slash of the endpoint.
get_url(ep) ==
    LET stripped == IF Len(ep) > 0 /\ Head(ep) = "/" THEN Tail(ep) ELSE ep
    IN  BASE_URL \o <<"/">> \o API_VERSION \o <<"/">> \o stripped

\* Line 79: the statuses that are retried.
IsServerErrorOnly500(status) == status = 500
IsServerError(status) == 500 <= status /\ status < 600

\* requests.Response.ok: raise_for_status() raises for 400..599.
ResponseOkOnly2xx(status) == 200 <= status /\ status < 300
ResponseOk(status) == ~(400 <= status /\ status < 600)

\* Lines 86 and 109: is another attempt made after failed attempt `a`.
ShouldRetryEarly(a, m) == a < m - 2
ShouldRetryOnce(a, m) == a < 1 /\ a < m - 1
ShouldRetry(a, m) == a < m - 1

\* Lines 87 and 110: the backoff, in seconds.
BackoffOneIndexed(a) == Pow2(a + 1)
Backoff(a) == Pow2(a)

\* Lines 63-75: the message of the AuthenticationError, or the TypeError of
\* `"error" in error_data` when error_data is null or a number.
AuthOutcome(body, url) ==
    CASE body = "text" ->
            [type |-> "AuthenticationError", status_code |-> 0, url |-> <<>>, msg |-> "reauth"]
      [] body = "obj_error" ->
            [type |-> "AuthenticationError", status_code |-> 0, url |-> <<>>, msg |-> "reauth"]
      [] body \in {"obj_plain", "list"} ->
            [type |-> "AuthenticationError", status_code |-> 0, url |-> <<>>, msg |-> "status_url"]
      [] OTHER ->
            [type |-> "TypeError", status_code |-> 0, url |-> <<>>, msg |-> "none"]

APIErrorOf(status, url) ==
    [type |-> "APIError", status_code |-> status, url |-> url, msg |-> "status_url"]

TimeoutError == [type |-> "Timeout", status_code |-> 0, url |-> <<>>, msg |-> "none"]
TransportErrorWrapped == [type |-> "APIError", status_code |-> 0, url |-> <<>>, msg |-> "status_url"]
TransportError == [type |-> "RequestException", status_code |-> 0, url |-> <<>>, msg |-> "none"]

\* The frame of a call before the loop (lines 49-55).
NewCall ==
    [pc |-> "loop", attempt |-> 0, last_error |-> NoError,
     response |-> NoResponse, raised |-> NoError, log |-> <<>>]

ReqEvent(c, o) == [ev |-> "request", attempt |-> c.attempt, kind |-> o.kind,
                   status_code |-> o.status_code, secs |-> 0,
                   exc |-> IF o.kind = "transport" THEN o.body ELSE "none"]
SleepEvent(c) == [ev |-> "sleep", attempt |-> c.attempt, kind |-> "none",
                  status_code |-> 0, secs |-> Backoff(c.attempt), exc |-> "none"]

\* Lines 80 and 108: last_error is assigned the error of this attempt.
LastErrorKeepFirst(prev, err) == IF prev = NoError THEN err ELSE prev
LastError(prev, err) == err

Raise(c, o, e) == [c EXCEPT !.pc = "raised", !.raised = e, !.log = Append(@, ReqEvent(c, o))]

\* A retryable failure: sleep and continue, or raise (lines 86-91, 109-114).
RetryOrRaise(c, m, o, err, final) ==
    IF ShouldRetry(c.attempt, m)
    THEN [c EXCEPT !.pc = "sleep", !.last_error = err,
                   !.log = Append(@, ReqEvent(c, o)) \o <<SleepEvent(c)>>]
    ELSE [Raise(c, o, final) EXCEPT !.last_error = err]

\* One iteration of the loop body with session.get yielding outcome o
\* (lines 58-114), up to the return, the raise or the start of the sleep.
GetAttempt(c, m, url, o) ==
    CASE o.kind = "timeout" -> Raise(c, o, TimeoutError)
      [] o.kind = "transport" ->
            LET e == [TransportError EXCEPT !.msg = o.body]
            IN  RetryOrRaise(c, m, o, LastError(c.last_error, e), e)
      [] o.kind = "response" /\ o.status_code = 401 ->
            Raise(c, o, AuthOutcome(o.body, url))
      [] o.kind = "response" /\ o.status_code # 401 /\ IsServerError(o.status_code) ->
            LET e == LastError(c.last_error, APIErrorOf(o.status_code, url))
            IN  RetryOrRaise(c, m, o, e, e)
      [] o.kind = "response" /\ o.status_code # 401 /\ ~IsServerError(o.status_code)
            /\ ~ResponseOk(o.status_code) ->
            Raise(c, o, APIErrorOf(o.status_code, url))
      [] OTHER ->
            [c EXCEPT !.pc = "returned",
                      !.response = [status_code |-> o.status_code, body |-> o.body],
                      !.log = Append(@, ReqEvent(c, o))]

\* time.sleep returns; `continue` takes the next value of range(max_retries).
GetWakeSameAttempt(c) == [c EXCEPT !.pc = "loop"]
GetWake(c) == [c EXCEPT !.pc = "loop", !.attempt = @ + 1]

\* range(max_retries) is exhausted: the function body ends, returning None.
GetFallOff(c) == [c EXCEPT !.pc = "returned", !.response = NoResponse]

LoopHasNext(c, m) == c.attempt < m

(***************************************************************************)
(* The session of the client (client.py:16-24)                             *)
(***************************************************************************)
\* A dict is a function; d[k] = v is Put(d, k, v).
EmptyDict == <<>>
PutIfAbsent(d, k, v) == [x \in (DOMAIN d) \cup {k} |-> IF x \in DOMAIN d THEN d[x] ELSE v]
Put(d, k, v) == [x \in (DOMAIN d) \cup {k} |-> IF x = k THEN v ELSE d[x]]

NoHeaders == EmptyDict
\* Line 24: self.session.headers["Authorization"] = f"Bearer {token}".
SetTokenBare(headers, tok) == Put(headers, "Authorization", <<tok>>)
SetToken(headers, tok) == Put(headers, "Authorization", <<"Bearer ", tok>>)

\* requests merges the headers of the session with those of the call, the
\* call's taking precedence; client.get and the fetch functions pass none.
RequestHeaders(sh, rh) ==
    [k \in (DOMAIN sh) \cup (DOMAIN rh) |-> IF k \in DOMAIN rh THEN rh[k] ELSE sh[k]]

\* The set_token calls made before the requests: the token of the login,
\* then a refreshed one.
TokenCalls == <<"token1", "token2">>
RECURSIVE SetTokens(_, _)
SetTokens(headers, toks) ==
    IF toks = <<>> THEN headers
    ELSE SetTokens(SetToken(headers, Head(toks)), Tail(toks))

SessionReady ==
    /\ session_headers = SetTokens(NoHeaders, TokenCalls)
    /\ sent = {}

(***************************************************************************)
(* Values of the variables a specification does not use                    *)
(***************************************************************************)
GetIdle ==
    /\ endpoint = <<>>
    /\ max_retries = MAX_RETRIES
    /\ call = NewCall
    /\ SessionReady

ExecIdle ==
    /\ batches = <<>>
    /\ max_workers = 1
    /\ batch = 0
    /\ pc = "idle"
    /\ fut = <<>>
    /\ num_threads = <<>>
    /\ yielded = {}
    /\ results = <<>>
    /\ errors = <<>>
    /\ invoked = <<>>
    /\ ret = <<>>
    /\ shut = <<>>

DaysIdle ==
    /\ dates = <<>>
    /\ data_types = <<>>
    /\ days_pc = "idle"
    /\ days_results = <<>>
    /\ calls = <<>>
    /\ http_requests = 0
    /\ days_raised = NoError

DiscIdle ==
    /\ start_year = 0
    /\ start_month = 0
    /\ today = <<0, 0>>
    /\ current_year = 0
    /\ current_month = 0
    /\ all_dates = <<>>
    /\ queries = <<>>
    /\ answers = <<>>
    /\ disc_pc = "idle"
    /\ disc_raised = NoError

(***************************************************************************)
(* SpecGet: one call client.get(endpoint, max_retries)                     *)
(***************************************************************************)
Endpoints == {<<"u">>, <<"/", "u">>}

InitGet ==
    /\ endpoint \in Endpoints
    /\ max_retries \in 0..MaxRetriesArg
    /\ call = NewCall
    /\ SessionReady
    /\ ExecIdle /\ DaysIdle /\ DiscIdle

\* Lines 57-114: session.get is called and its outcome handled.
GetRequest ==
    /\ call.pc = "loop"
    /\ LoopHasNext(call, max_retries)
    /\ \E o \in Outcomes : call' = GetAttempt(call, max_retries, get_url(endpoint), o)
    /\ sent' = sent \cup {RequestHeaders(session_headers, NoHeaders)}
    /\ UNCHANGED <<endpoint, max_retries, session_headers, execVars, daysVars,
                   discVars>>

\* Lines 88-89 and 111-112: the backoff sleep ends.
GetSleepDone ==
    /\ call.pc = "sleep"
    /\ call' = GetWake(call)
    /\ UNCHANGED <<endpoint, max_retries, session_headers, sent, execVars,
                   daysVars, discVars>>

\* Line 57 with nothing left to iterate: implicit `return None`.
GetReturnNone ==
    /\ call.pc = "loop"
    /\ ~LoopHasNext(call, max_retries)
    /\ call' = GetFallOff(call)
    /\ UNCHANGED <<endpoint, max_retries, session_headers, sent, execVars,
                   daysVars, discVars>>

NextGet == GetRequest \/ GetSleepDone \/ GetReturnNone

SpecGet == InitGet /\ [][NextGet]_vars

\* ---- observations on the log of a call ----
Requests(c) == SelectSeq(c.log, LAMBDA e : e.ev = "request")
Sleeps(c) == SelectSeq(c.log, LAMBDA e : e.ev = "sleep")
NumRequests(c) == Len(Requests(c))
Terminal(c) == c.pc \in {"returned", "raised"}
Is5xx(e) == e.kind = "response" /\ 500 <= e.status_code /\ e.status_code <= 599
Is2xx(e) == e.kind = "response" /\ 200 <= e.status_code /\ e.status_code <= 299

RECURSIVE SumSecs(_)
SumSecs(s) == IF s = <<>> THEN 0 ELSE Head(s).secs + SumSecs(Tail(s))

\* C3: against an endpoint that answers 5xx N times and then 2xx, a finished
\* get with max_retries = m >= 1 has returned the 2xx response after exactly
\* N+1 requests when N+1 <= m, and has raised APIError after exactly m
\* requests when N+1 > m.
C3_RetryThenSuccess ==
    (max_retries >= 1 /\ Terminal(call)) =>
        LET reqs == Requests(call)
            n == Len(reqs)
        IN  /\ n >= 1
            /\ ((\A i \in 1..(n - 1) : Is5xx(reqs[i])) /\ Is2xx(reqs[n])) =>
                    /\ n <= max_retries
                    /\ call.pc = "returned"
                    /\ call.response.status_code = reqs[n].status_code
            /\ (\A i \in 1..n : Is5xx(reqs[i])) =>
                    /\ n = max_retries
                    /\ call.pc = "raised"
                    /\ call.raised.type = "APIError"

\* C3 witness: two 5xx answers, then the 2xx answer is returned on attempt 3.
C3_Witness ==
    /\ max_retries = 3 /\ call.pc = "returned"
    /\ NumRequests(call) = 3
    /\ Is5xx(Requests(call)[1]) /\ Is5xx(Requests(call)[2]) /\ Is2xx(Requests(call)[3])

\* ---- classes of a request event ----
Is401(e) == e.kind = "response" /\ e.status_code = 401
IsOther4xx(e) == e.kind = "response" /\ 400 <= e.status_code /\ e.status_code <= 499
                 /\ e.status_code # 401
IsTimeout(e) == e.kind = "timeout"
IsTransport(e) == e.kind = "transport"
IsRetryable(e) == Is5xx(e) \/ IsTransport(e)
IsFatal(e) == Is401(e) \/ IsOther4xx(e) \/ IsTimeout(e)

\* C4: a 401 response, another 4xx response or a timeout ends the call on the
\* attempt where it occurs, whatever came before: it is the last event of the
\* call (no further request, no backoff sleep) and get raises
\* AuthenticationError, APIError with that status code and the full URL, or
\* the timeout exception respectively.
C4_FatalEndsCall ==
    \A i \in 1..Len(call.log) :
        LET e == call.log[i] IN
        (e.ev = "request" /\ IsFatal(e)) =>
            /\ i = Len(call.log)
            /\ call.pc = "raised"
            /\ Is401(e) => call.raised.type = "AuthenticationError"
            /\ IsOther4xx(e) => /\ call.raised.type = "APIError"
                                /\ call.raised.status_code = e.status_code
                                /\ call.raised.url = get_url(endpoint)
            /\ IsTimeout(e) => call.raised.type = "Timeout"

\* C5: the events of a call are request 0, sleep, request 1, sleep, ... in
\* this order; a sleep follows exactly the retryable failures that are not
\* the last allowed attempt and lasts 2^k seconds after attempt k; a call
\* that fails twice and then succeeds has slept 3 seconds.
C5_BackoffSchedule ==
    LET log == call.log
        reqs == Requests(call)
    IN  /\ \A j \in 1..Len(reqs) : reqs[j].attempt = j - 1
        /\ \A i \in 1..Len(log) :
            /\ log[i].ev = "sleep" =>
                    /\ i > 1
                    /\ log[i - 1].ev = "request"
                    /\ log[i - 1].attempt = log[i].attempt
                    /\ IsRetryable(log[i - 1])
                    /\ log[i].attempt < max_retries - 1
                    /\ log[i].secs = Pow2(log[i].attempt)
                    /\ i < Len(log) => /\ log[i + 1].ev = "request"
                                       /\ log[i + 1].attempt = log[i].attempt + 1
            /\ log[i].ev = "request" =>
                    /\ (IsRetryable(log[i]) /\ log[i].attempt < max_retries - 1) =>
                            /\ i < Len(log)
                            /\ log[i + 1].ev = "sleep"
                    /\ log[i].attempt >= max_retries - 1 => i = Len(log)
                    /\ i < Len(log) => log[i + 1].ev = "sleep"
        /\ (call.pc = "returned" /\ Len(reqs) = 3) => SumSecs(Sleeps(call)) = 3
        /\ (call.pc = "loop" /\ call.attempt > 0) =>
                /\ log # <<>>
                /\ log[Len(log)].ev = "sleep"

\* C5 witness: two retryable failures (one 5xx, one transport), then success,
\* with sleeps of 1 and 2 seconds.
C5_Witness ==
    /\ call.pc = "returned" /\ Len(call.log) = 5
    /\ Is5xx(call.log[1]) /\ call.log[2].ev = "sleep" /\ call.log[2].secs = 1
    /\ IsTransport(call.log[3]) /\ call.log[4].ev = "sleep" /\ call.log[4].secs = 2
    /\ Is2xx(call.log[5])

(***************************************************************************)
(* fetch_concurrent (utils.py:77-111) on a ThreadPoolExecutor              *)
(***************************************************************************)
\* Items are opaque hashable values; the lists are taken up to renaming:
\* the first occurrences of the values appear in increasing order.
Items == 1..MaxItems

Canonical(s) ==
    \A i \in 1..Len(s) : \A v \in 1..(s[i] - 1) : \E j \in 1..(i - 1) : s[j] = v

ItemLists == {s \in SeqsUpTo(Items, MaxItems) : Canonical(s)}


\* What one invocation of fetch_fn ends with: a value, or an exception of one
\* of the classes the fetch functions raise. `by` is the future it belongs to.
FnOutcomeKinds == {"value", "APIError", "ValueError"}
FnOutcome(kind, i) == [raised |-> kind # "value", type |-> kind, by |-> i]
NoOutcome == [raised |-> FALSE, type |-> "none", by |-> 0]

\* Line 108, `except Exception`: all of these classes derive from Exception.
ExceptionClasses == {"APIError", "ValueError", "AuthenticationError", "Timeout",
                     "RequestException", "TypeError", "AttributeError"}
CaughtAPIErrorOnly(e) == e.type = "APIError"
Caught(e) == e.type \in ExceptionClasses

items == batches[batch]
Futures(b) == 1..Len(fut[b])
Running(b) == {i \in Futures(b) : fut[b][i].st = "running"}
Pending(b) == {i \in Futures(b) : fut[b][i].st = "pending"}
Finished(b) == {i \in Futures(b) : fut[b][i].st = "finished"}

\* ThreadPoolExecutor._adjust_thread_count: a thread is spawned while the pool
\* has fewer than max_workers threads.
MaySpawnOneMore(n, mw) == n <= mw
MaySpawn(n, mw) == n < mw

\* as_completed ends when every future of future_to_item has been yielded.
LoopEndsEarly(done, n) == Cardinality(done) >= n - 1
LoopEnds(done, n) == done = 1..n

\* Executor.__exit__ calls shutdown(wait=True): the threads are joined, which
\* takes until no work item is queued or running.
JoinedNever(b) == Pending(b) = {} /\ Running(b) = {} /\ Finished(b) = {}
Joined(b) == Pending(b) = {} /\ Running(b) = {}

FreshCall(its) ==
    /\ pc' = "entry"
    /\ results' = EmptyDict
    /\ errors' = EmptyDict
    /\ yielded' = {}
    /\ fut' = Append(fut, <<>>)
    /\ num_threads' = Append(num_threads, 0)
    /\ invoked' = Append(invoked, [x \in Range(its) |-> 0])
    /\ shut' = Append(shut, FALSE)

\* Line 98: `not items`.
NoItemsIsNone(its) == FALSE
NoItems(its) == its = <<>>

\* Lines 95-99: empty items, both dicts are returned at once.
ReturnEmptyCore ==
    /\ pc = "entry"
    /\ NoItems(items)
    /\ pc' = "returned"
    /\ ret' = Append(ret, [results |-> results, errors |-> errors])
    /\ UNCHANGED <<batches, max_workers, batch, fut, num_threads, yielded,
                   results, errors, invoked, shut>>

\* Line 101: the pool is created; ThreadPoolExecutor raises ValueError for
\* max_workers <= 0.
CreatePoolCore ==
    /\ pc = "entry"
    /\ ~NoItems(items)
    /\ pc' = IF max_workers <= 0 THEN "value_error"
             ELSE IF items = <<>> THEN "collect" ELSE "submit"
    /\ UNCHANGED <<batches, max_workers, batch, fut, num_threads, yielded,
                   results, errors, invoked, ret, shut>>

\* Line 102: executor.submit(fetch_fn, item) for the next item. The work item
\* is queued; a thread is spawned unless an idle one takes it.
SubmitCore ==
    /\ pc = "submit"
    /\ LET k == Len(fut[batch]) + 1
           n == num_threads[batch]
           idle == n > Cardinality(Running(batch))
       IN  /\ k <= Len(items)
           /\ fut' = [fut EXCEPT ![batch] =
                        Append(@, [st |-> "pending", item |-> items[k], out |-> NoOutcome])]
           /\ \/ /\ MaySpawn(n, max_workers)
                 /\ num_threads' = [num_threads EXCEPT ![batch] = n + 1]
              \/ /\ idle \/ ~MaySpawn(n, max_workers)
                 /\ UNCHANGED num_threads
           /\ pc' = IF k = Len(items) THEN "collect" ELSE "submit"
    /\ UNCHANGED <<batches, max_workers, batch, yielded, results, errors,
                   invoked, ret, shut>>

\* A thread of pool b that is not inside a work item waits on the queue.
HasIdleThreadAllIdle(b) == Running(b) = {} /\ num_threads[b] > 0
HasIdleThread(b) == Cardinality(Running(b)) < num_threads[b]

\* A worker thread of pool b takes the oldest queued work item and enters
\* fetch_fn(item).
StartCore(b, i) ==
    /\ i \in Pending(b)
    /\ \A j \in Pending(b) : i <= j
    /\ HasIdleThread(b)
    /\ ~shut[b]
    /\ fut' = [fut EXCEPT ![b][i].st = "running"]
    /\ invoked' = [invoked EXCEPT ![b][fut[b][i].item] = @ + 1]
    /\ UNCHANGED <<batches, max_workers, batch, pc, num_threads, yielded,
                   results, errors, ret, shut>>

\* fetch_fn(item) returns or raises in its worker; the future is set.
FinishCore(b, i, o) ==
    /\ i \in Running(b)
    /\ fut' = [fut EXCEPT ![b][i].st = "finished", ![b][i].out = o]
    /\ UNCHANGED <<batches, max_workers, batch, pc, num_threads, yielded,
                   results, errors, invoked, ret, shut>>

\* Line 105: future_to_item[future], the key the outcome is stored under.
KeyOfLastItem(f) == items[Len(items)]
KeyOf(f) == f.item

\* Lines 104-109: as_completed yields a finished future; its outcome is
\* stored under its item, or leaves the loop when the handler does not match.
CollectCore(i) ==
    /\ pc = "collect"
    /\ i \in Finished(batch) \ yielded
    /\ LET f == fut[batch][i] IN
        /\ yielded' = yielded \cup {i}
        /\ IF ~f.out.raised
           THEN /\ results' = Put(results, KeyOf(f), f.out)
                /\ UNCHANGED <<errors, pc>>
           ELSE IF Caught(f.out)
           THEN /\ errors' = Put(errors, KeyOf(f), f.out)
                /\ UNCHANGED <<results, pc>>
           ELSE /\ pc' = "unwind"
                /\ UNCHANGED <<results, errors>>
    /\ UNCHANGED <<batches, max_workers, batch, fut, num_threads, invoked, ret, shut>>

\* Line 104: the for loop ends.
LoopEndCore ==
    /\ pc = "collect"
    /\ LoopEnds(yielded, Len(items))
    /\ pc' = "exit"
    /\ UNCHANGED <<batches, max_workers, batch, fut, num_threads, yielded,
                   results, errors, invoked, ret, shut>>

\* Lines 101 and 111: the with block is left, the pool is shut down and
\* joined; then the dicts are returned, or the escaped exception goes on.
ShutdownCore ==
    /\ pc \in {"exit", "unwind"}
    /\ Joined(batch)
    /\ shut' = [shut EXCEPT ![batch] = TRUE]
    /\ IF pc = "exit"
       THEN /\ pc' = "returned"
            /\ ret' = Append(ret, [results |-> results, errors |-> errors])
       ELSE /\ pc' = "raised"
            /\ UNCHANGED ret
    /\ UNCHANGED <<batches, max_workers, batch, fut, num_threads, yielded,
                   results, errors, invoked>>

\* export_products.py:144-154: the caller goes on to its next
\* fetch_concurrent call.
NextCallCore ==
    /\ pc = "returned"
    /\ batch < Len(batches)
    /\ batch' = batch + 1
    /\ FreshCall(batches[batch + 1])
    /\ UNCHANGED <<batches, max_workers, ret>>

(***************************************************************************)
(* Spec: consecutive fetch_concurrent calls with an abstract fetch_fn      *)
(***************************************************************************)
NumCalls == 2

Init ==
    /\ batches \in {bs \in [1..NumCalls -> ItemLists] :
                        Len(bs[1]) + Len(bs[2]) <= MaxItems}
    /\ max_workers \in 0..MaxWorkers
    /\ batch = 1
    /\ pc = "entry"
    /\ results = EmptyDict
    /\ errors = EmptyDict
    /\ yielded = {}
    /\ fut = << <<>> >>
    /\ num_threads = <<0>>
    /\ invoked = << [x \in Range(batches[1]) |-> 0] >>
    /\ shut = <<FALSE>>
    /\ ret = <<>>
    /\ GetIdle /\ DaysIdle /\ DiscIdle

others == <<getVars, daysVars, discVars>>

ReturnEmpty == ReturnEmptyCore /\ UNCHANGED others
CreatePool == CreatePoolCore /\ UNCHANGED others
Submit == SubmitCore /\ UNCHANGED others
Start == \E b \in 1..Len(fut) : \E i \in Futures(b) : StartCore(b, i) /\ UNCHANGED others
Finish ==
    \E b \in 1..Len(fut) : \E i \in Futures(b) : \E k \in FnOutcomeKinds :
        FinishCore(b, i, FnOutcome(k, i)) /\ UNCHANGED others
Collect == \E i \in Futures(batch) : CollectCore(i) /\ UNCHANGED others
LoopEnd == LoopEndCore /\ UNCHANGED others
Shutdown == ShutdownCore /\ UNCHANGED others
NextCall == NextCallCore /\ UNCHANGED others

Next ==
    \/ ReturnEmpty \/ CreatePool \/ Submit \/ Start \/ Finish
    \/ Collect \/ LoopEnd \/ Shutdown \/ NextCall

Spec == Init /\ [][Next]_vars

\* ---- observations on a fetch_concurrent call ----
Returned == pc = "returned"
Occurrences(x) == Cardinality({k \in 1..Len(items) : items[k] = x})

\* C1: when a call with pairwise distinct items returns, fetch_fn has been
\* entered exactly once per item (and for nothing else), every item is a key
\* of exactly one of the two returned dicts, results if its own invocation
\* returned and errors if it raised, so the sizes add up to len(items).
C1_EveryItemOnce ==
    (Returned /\ Distinct(items)) =>
        LET r == ret[batch] IN
        /\ DOMAIN invoked[batch] = Range(items)
        /\ \A x \in Range(items) : invoked[batch][x] = 1
        /\ (DOMAIN r.results) \cap (DOMAIN r.errors) = {}
        /\ (DOMAIN r.results) \cup (DOMAIN r.errors) = Range(items)
        /\ Cardinality(DOMAIN r.results) + Cardinality(DOMAIN r.errors) = Len(items)
        /\ Len(fut[batch]) = Len(items)
        /\ \A i \in Futures(batch) :
                /\ fut[batch][i].item = items[i]
                /\ fut[batch][i].out.by = i
                /\ IF fut[batch][i].out.raised
                   THEN items[i] \in DOMAIN r.errors
                   ELSE items[i] \in DOMAIN r.results

\* C1 witness: a call with three distinct items has returned with both dicts
\* non-empty.
C1_Witness ==
    /\ Returned /\ Distinct(items) /\ Len(items) = 3
    /\ DOMAIN ret[batch].results # {} /\ DOMAIN ret[batch].errors # {}

\* C2: an exception raised by fetch_fn never leaves fetch_concurrent, and when
\* the call returns every invocation, raising or not, was started, has run to
\* completion and is recorded: an item that occurs once in the list holds its
\* own outcome, the exception object in errors or the value in results.
C2_ExceptionsIsolated ==
    /\ pc \notin {"unwind", "raised"}
    /\ Returned =>
        /\ Len(fut[batch]) = Len(items)
        /\ \A i \in Futures(batch) :
            LET f == fut[batch][i] IN
            /\ f.st = "finished"
            /\ i \in yielded \/ items = <<>>
            /\ invoked[batch][f.item] = Occurrences(f.item)
            /\ Occurrences(f.item) = 1 =>
                IF f.out.raised
                THEN /\ f.item \in DOMAIN ret[batch].errors
                     /\ ret[batch].errors[f.item] = f.out
                     /\ f.item \notin DOMAIN ret[batch].results
                ELSE /\ f.item \in DOMAIN ret[batch].results
                     /\ ret[batch].results[f.item] = f.out
                     /\ f.item \notin DOMAIN ret[batch].errors

\* C2 witness: the first item's invocation raised a ValueError, and the call
\* has returned with the second item's value.
C2_Witness ==
    /\ Returned /\ Len(items) >= 2
    /\ fut[batch][1].out.raised /\ fut[batch][1].out.type = "ValueError"
    /\ ~fut[batch][2].out.raised
    /\ 2 \in DOMAIN ret[batch].results

\* C9: at every moment at most max_workers invocations of fetch_fn are in
\* progress in a pool, however many items were submitted.
C9_WorkerCap ==
    \A b \in 1..Len(fut) :
        /\ Cardinality(Running(b)) <= max_workers
        /\ num_threads[b] <= max_workers

\* C9 witness: max_workers invocations are running while a further item waits.
C9_Witness ==
    /\ Cardinality(Running(batch)) = max_workers
    /\ Pending(batch) # {}
    /\ Len(items) > max_workers

\* C10: a call returns only after every submitted invocation has finished and
\* been recorded and its pool has been joined; nothing is handed to the caller
\* before; so invocations of two consecutive calls never overlap.
C10_ReturnsAfterAll ==
    /\ Len(ret) = IF Returned THEN batch ELSE batch - 1
    /\ \A b \in 1..(batch - 1) : Pending(b) = {} /\ Running(b) = {}
    /\ (Returned /\ items # <<>>) =>
        /\ Len(fut[batch]) = Len(items)
        /\ \A i \in Futures(batch) : fut[batch][i].st = "finished" /\ i \in yielded
        /\ shut[batch]
        /\ ret[batch] = [results |-> results, errors |-> errors]
        /\ (DOMAIN results) \cup (DOMAIN errors) = Range(items)

\* C10 witness: the second call has an invocation running, after a first call
\* that had invocations of its own.
C10_Witness ==
    /\ batch = 2 /\ Running(2) # {}
    /\ Len(batches[1]) >= 1 /\ Finished(1) = Futures(1) /\ shut[1]

(***************************************************************************)
(* fetch_days_concurrent (export_days.py:159-213)                          *)
(***************************************************************************)
\* Lines 183-190: data type name -> fetch function, named by its endpoint.
fetch_functions ==
    [t \in {"consumed", "goals", "exercises", "water", "daily_summary", "summary"} |->
        CASE t = "consumed" -> "user/consumed-items"
          [] t = "goals" -> "user/goals"
          [] t = "exercises" -> "user/exercises"
          [] t = "water" -> "user/water-intake"
          [] OTHER -> "user/widgets/daily-summary"]

\* Lines 193-195: every requested type is looked up before anything else.
FirstTypeKnown(types) == types = <<>> \/ types[1] \in DOMAIN fetch_functions
AllTypesKnown(types) == \A k \in 1..Len(types) : types[k] \in DOMAIN fetch_functions

\* Line 198: the cross product, dates outermost.
RECURSIVE TasksOf(_, _)
TasksOf(ds, types) ==
    IF ds = <<>> THEN <<>>
    ELSE [k \in 1..Len(types) |-> <<Head(ds), types[k]>>] \o TasksOf(Tail(ds), types)

\* Lines 60-156: the endpoint a fetch function asks for.
EndpointOf(task) == <<"/", fetch_functions[task[2]], "?date=", task[1]>>

\* Lines 180 and 207-211: the dict per date, filled from successes first and
\* from errors second.
RegroupSuccessesOnly(ds, succ, errs) ==
    [d \in Range(ds) |->
        [t \in {k[2] : k \in {x \in DOMAIN succ : x[1] = d}} |-> succ[<<d, t>>]]]
Regroup(ds, succ, errs) ==
    [d \in Range(ds) |->
        [t \in {k[2] : k \in {x \in (DOMAIN succ) \cup (DOMAIN errs) : x[1] = d}} |->
            IF <<d, t>> \in DOMAIN errs THEN errs[<<d, t>>] ELSE succ[<<d, t>>]]]

ValueErrorOf == [type |-> "ValueError", status_code |-> 0, url |-> <<>>, msg |-> "unknown data type"]

\* What the fetch function of future i ends with once its client.get is over:
\* the model object built from the response, or the exception of get.
TaskOutcome(c, i) ==
    IF c.pc = "returned"
    THEN [raised |-> FALSE, type |-> "value", by |-> i]
    ELSE [raised |-> TRUE, type |-> c.raised.type, by |-> i]

\* The inputs of the model: dates up to renaming, type names among two
\* registered ones and an unregistered one, and the answers of the server.
DateLists == {ds \in SeqsUpTo(1..MaxDates, MaxDates) : Canonical(ds)}
TypeInputs == {"consumed", "summary", "bogus"}
\* The type lists are taken up to exchanging the two registered names:
\* "summary" only stands after a "consumed".
TypesCanonical(ts) ==
    \A k \in 1..Len(ts) : ts[k] = "summary" => \E j \in 1..(k - 1) : ts[j] = "consumed"
DaysOutcomes ==
    {[kind |-> "response", status_code |-> 200, body |-> "obj_plain"],
     [kind |-> "response", status_code |-> 401, body |-> "obj_error"],
     [kind |-> "response", status_code |-> 401, body |-> "null"],
     [kind |-> "response", status_code |-> 503, body |-> "obj_plain"]}

\* The non-2xx answers received so far by the tasks of the batch.
RECURSIVE SumOver(_, _)
SumOver(S, f) ==
    IF S = {} THEN 0
    ELSE LET x == CHOOSE y \in S : TRUE IN f[x] + SumOver(S \ {x}, f)

NumFaults ==
    SumOver(DOMAIN calls,
            [i \in DOMAIN calls |->
                Len(SelectSeq(calls[i].log, LAMBDA e : e.ev = "request" /\ ~Is2xx(e)))])

InitDays ==
    /\ dates \in DateLists
    /\ data_types \in {ts \in SeqsUpTo(TypeInputs, MaxTypes) : TypesCanonical(ts)}
    /\ Len(dates) * Len(data_types) <= MaxTasks
    /\ days_pc = "entry"
    /\ days_results = EmptyDict
    /\ calls = EmptyDict
    /\ http_requests = 0
    /\ days_raised = NoError
    /\ max_workers \in 1..MaxWorkers
    /\ batches = <<>> /\ batch = 0 /\ pc = "idle" /\ fut = <<>>
    /\ num_threads = <<>> /\ yielded = {} /\ results = <<>> /\ errors = <<>>
    /\ invoked = <<>> /\ ret = <<>> /\ shut = <<>>
    /\ GetIdle /\ DiscIdle

daysFrame == <<dates, data_types, days_pc, days_results, days_raised>>

\* Lines 180-204: the dict per date is created and the types are validated;
\* then the tasks are built and fetch_concurrent is called with them.
DaysEnter ==
    /\ days_pc = "entry"
    /\ days_results' = [d \in Range(dates) |-> EmptyDict]
    /\ IF AllTypesKnown(data_types)
       THEN /\ days_pc' = "fetching"
            /\ batches' = <<TasksOf(dates, data_types)>>
            /\ batch' = 1
            /\ FreshCall(TasksOf(dates, data_types))
            /\ UNCHANGED days_raised
       ELSE /\ days_pc' = "raised"
            /\ days_raised' = ValueErrorOf
            /\ UNCHANGED <<batches, batch, pc, results, errors, yielded, fut,
                           num_threads, invoked, shut>>
    /\ UNCHANGED <<dates, data_types, calls, http_requests, max_workers, ret,
                   getVars, discVars>>

DaysReturnEmpty == ReturnEmptyCore /\ UNCHANGED <<getVars, daysVars, discVars>>
DaysCreatePool == CreatePoolCore /\ UNCHANGED <<getVars, daysVars, discVars>>
DaysSubmit == SubmitCore /\ UNCHANGED <<getVars, daysVars, discVars>>
DaysCollect == \E b \in 1..Len(fut) : \E i \in Futures(b) : CollectCore(i) /\ UNCHANGED <<getVars, daysVars, discVars>>
DaysLoopEnd == LoopEndCore /\ UNCHANGED <<getVars, daysVars, discVars>>
DaysShutdown == ShutdownCore /\ UNCHANGED <<getVars, daysVars, discVars>>

\* A worker enters _fetch_task(task) (lines 200-202), which enters client.get.
DaysStartOf(b, i) ==
    /\ StartCore(b, i)
    /\ calls' = Put(calls, i, NewCall)
    /\ UNCHANGED <<daysFrame, http_requests, getVars, discVars>>

DaysStart == \E b \in 1..Len(fut) : \E i \in Futures(b) : DaysStartOf(b, i)

\* One attempt of the client.get of a running task. When get returns or
\* raises, the fetch function ends and the future is set.
DaysRequestBy(b, i) ==
    \E o \in DaysOutcomes :
        /\ calls[i].pc = "loop"
        /\ LoopHasNext(calls[i], MAX_RETRIES)
        /\ o.status_code = 200 \/ NumFaults < MaxFaults
        /\ LET c == GetAttempt(calls[i], MAX_RETRIES, get_url(EndpointOf(fut[b][i].item)), o) IN
            /\ calls' = [calls EXCEPT ![i] = c]
            /\ http_requests' = http_requests + 1
            /\ IF Terminal(c)
               THEN FinishCore(b, i, TaskOutcome(c, i))
               ELSE UNCHANGED execVars
        /\ sent' = sent \cup {RequestHeaders(session_headers, NoHeaders)}
        /\ UNCHANGED <<daysFrame, endpoint, max_retries, call, session_headers,
                       discVars>>

DaysRequest == \E b \in 1..Len(fut) : \E i \in Running(b) : DaysRequestBy(b, i)

\* The backoff sleep of a running task ends.
DaysSleepDoneBy(b, i) ==
    /\ calls[i].pc = "sleep"
    /\ calls' = [calls EXCEPT ![i] = GetWake(@)]
    /\ UNCHANGED <<daysFrame, http_requests, execVars, getVars, discVars>>

DaysSleepDone == \E b \in 1..Len(fut) : \E i \in Running(b) : DaysSleepDoneBy(b, i)

\* Lines 204-213: fetch_concurrent is back; the flat dicts are regrouped.
DaysRegroup ==
    /\ days_pc = "fetching"
    /\ pc \in {"returned", "raised"}
    /\ IF pc = "returned"
       THEN /\ days_results' = Regroup(dates, ret[1].results, ret[1].errors)
            /\ days_pc' = "returned"
            /\ UNCHANGED days_raised
       ELSE /\ days_pc' = "raised"
            /\ days_raised' = [NoError EXCEPT !.type = "escaped"]
            /\ UNCHANGED days_results
    /\ UNCHANGED <<dates, data_types, calls, http_requests, execVars, getVars, discVars>>

NextDays ==
    \/ DaysEnter \/ DaysReturnEmpty \/ DaysCreatePool \/ DaysSubmit
    \/ DaysStart \/ DaysRequest \/ DaysSleepDone
    \/ DaysCollect \/ DaysLoopEnd \/ DaysShutdown \/ DaysRegroup

SpecDays == InitDays /\ [][NextDays]_vars

\* ---- observations on a fetch_days_concurrent call ----
HasUnknownType == \E k \in 1..Len(data_types) : data_types[k] \notin DOMAIN fetch_functions
TaskIndex(d, t) == CHOOSE i \in 1..Len(fut[1]) : fut[1][i].item = <<d, t>>

\* C7: when any requested type is not in the registry, fetch_days_concurrent
\* raises ValueError without having submitted a task or issued a request,
\* whatever the dates and wherever the unknown type stands in the list.
C7_UnknownTypeFailsFirst ==
    HasUnknownType =>
        /\ fut = <<>> /\ pc = "idle" /\ batches = <<>>
        /\ calls = EmptyDict
        /\ http_requests = 0
        /\ days_pc \in {"entry", "raised"}
        /\ days_pc = "raised" => days_raised.type = "ValueError"

\* C7 witness: ValueError was raised for a non-empty dates list and a type
\* list whose unknown type comes after a valid one.
C7_Witness ==
    /\ days_pc = "raised" /\ days_raised.type = "ValueError"
    /\ dates # <<>>
    /\ Len(data_types) = 2
    /\ data_types[1] \in DOMAIN fetch_functions
    /\ data_types[2] \notin DOMAIN fetch_functions

\* C8: when fetch_days_concurrent returns for distinct dates and distinct
\* valid types, the keys of the result are exactly the dates (the empty dict
\* and no request for no dates), each date holds exactly the requested types,
\* and result[d][t] is the value of task (d, t) if it succeeded and its
\* exception if it failed.
C8_RegroupedPerDate ==
    (days_pc = "returned" /\ Distinct(dates) /\ Distinct(data_types)) =>
        /\ DOMAIN days_results = Range(dates)
        /\ dates = <<>> => (days_results = EmptyDict /\ http_requests = 0 /\ fut[1] = <<>>)
        /\ \A d \in Range(dates) :
            /\ DOMAIN days_results[d] = Range(data_types)
            /\ \A t \in Range(data_types) :
                LET i == TaskIndex(d, t)
                    c == calls[i]
                    v == days_results[d][t]
                IN  /\ v.by = i
                    /\ v = fut[1][i].out
                    /\ c.pc = "returned" => (~v.raised /\ v.type = "value")
                    /\ c.pc = "raised" => (v.raised /\ v.type = c.raised.type)
                    /\ Terminal(c)

\* C8 witness: two dates and two types, where one task of the first date
\* failed with an APIError and the other three tasks succeeded.
C8_Witness ==
    /\ days_pc = "returned" /\ Distinct(dates) /\ Distinct(data_types)
    /\ Len(dates) = 2 /\ Len(data_types) = 2
    /\ days_results[dates[1]][data_types[1]].type = "APIError"
    /\ ~days_results[dates[1]][data_types[2]].raised
    /\ \A t \in Range(data_types) : ~days_results[dates[2]][t].raised

(***************************************************************************)
(* auto_discover_months and discover_month (export_days.py:21-57, 216-246) *)
(***************************************************************************)
\* calendar.monthrange(year, month)[1]
IsLeapEveryFourth(y) == y % 4 = 0
IsLeap(y) == y % 4 = 0 /\ (y % 100 # 0 \/ y % 400 = 0)
DaysInMonth(y, m) ==
    CASE m = 2 -> IF IsLeap(y) THEN 29 ELSE 28
      [] m \in {4, 6, 9, 11} -> 30
      [] OTHER -> 31

\* Line 236: the tuple comparison (current_year, current_month) <= (year, month).
NotAfterStrict(a, b) == a[1] < b[1] \/ (a[1] = b[1] /\ a[2] < b[2])
NotAfter(a, b) == a[1] < b[1] \/ (a[1] = b[1] /\ a[2] <= b[2])

\* Lines 241-244: the month after (y, m).
NextMonth(y, m) == IF m + 1 > 12 THEN <<y + 1, 1>> ELSE <<y, m + 1>>

\* Lines 34-43: the range a month is queried with.
QueryOf(y, m) ==
    [year |-> y, month |-> m, start |-> <<y, m, 1>>, end |-> <<y, m, DaysInMonth(y, m)>>]

\* Lines 46-57: the dates of a response body. A body is "notlist" or a list of
\* entries; an entry is the day of its "date" field, or 0 when it has none.
RECURSIVE ExtractDates(_, _, _)
ExtractDates(y, m, data) ==
    IF data = <<>> THEN <<>>
    ELSE (IF Head(data) # 0 THEN << <<y, m, Head(data)>> >> ELSE <<>>)
         \o ExtractDates(y, m, Tail(data))

DatesOfBody(y, m, body) ==
    IF body.list THEN ExtractDates(y, m, body.data) ELSE <<>>

\* The answers of client.get to a discovery query: a body, or an error.
DiscBodies ==
    {[list |-> FALSE, data |-> <<>>]} \cup
    {[list |-> TRUE, data |-> d] : d \in {<<>>, <<15>>, <<20, 15>>, <<15, 0, 15>>}}
DiscErrors == {APIErrorOf(503, <<>>), TimeoutError}

\* Lines 238-239: `if dates: all_dates.extend(dates)`.
ExtendFront(acc, ds) == IF ds # <<>> THEN ds \o acc ELSE acc
Extend(acc, ds) == IF ds # <<>> THEN acc \o ds ELSE acc

\* The calls of the model: "today" and the start, at most MaxSpan months
\* before the current month or up to a year after it.
Todays == {<<2023, 3>>, <<2024, 2>>}
StartYears == 2022..2025
SpanOf(sy, sm, t) == 12 * (t[1] - sy) + (t[2] - sm) + 1

InitDisc ==
    /\ today \in Todays
    /\ start_year \in StartYears
    /\ start_month \in 1..12
    /\ SpanOf(start_year, start_month, today) \in (0 - 12)..MaxSpan
    /\ current_year = start_year
    /\ current_month = start_month
    /\ all_dates = <<>>
    /\ queries = <<>>
    /\ answers = <<>>
    /\ disc_pc = "loop"
    /\ disc_raised = NoError
    /\ GetIdle /\ ExecIdle /\ DaysIdle

\* Lines 236-244: one iteration, with discover_month answered by a body, or
\* failing, which ends auto_discover_months with that error.
\* Lines 236-237: the loop runs while nothing has left it; an exception of
\* discover_month is not caught and ends the function.
ScanGoesOnAfterRaise(p) == p \in {"loop", "raised"}
ScanGoesOn(p) == p = "loop"

DiscQuery ==
    /\ ScanGoesOn(disc_pc)
    /\ NotAfter(<<current_year, current_month>>, today)
    /\ queries' = Append(queries, QueryOf(current_year, current_month))
    /\ \/ \E body \in DiscBodies :
            /\ answers' = Append(answers, DatesOfBody(current_year, current_month, body))
            /\ all_dates' = Extend(all_dates, DatesOfBody(current_year, current_month, body))
            /\ current_year' = NextMonth(current_year, current_month)[1]
            /\ current_month' = NextMonth(current_year, current_month)[2]
            /\ UNCHANGED <<disc_pc, disc_raised>>
       \/ \E e \in DiscErrors :
            /\ disc_pc' = "raised"
            /\ disc_raised' = e
            /\ UNCHANGED <<all_dates, answers, current_year, current_month>>
    /\ UNCHANGED <<start_year, start_month, today, getVars, execVars, daysVars>>

\* Lines 236 and 246: the loop condition fails, all_dates is returned.
DiscReturn ==
    /\ ScanGoesOn(disc_pc)
    /\ ~NotAfter(<<current_year, current_month>>, today)
    /\ disc_pc' = "returned"
    /\ UNCHANGED <<start_year, start_month, today, current_year, current_month,
                   all_dates, queries, answers, disc_raised, getVars, execVars,
                   daysVars>>

NextDisc == DiscQuery \/ DiscReturn

SpecDisc == InitDisc /\ [][NextDisc]_vars

\* ---- observations on a scan ----
\* The number of months from the start through the current month, and the
\* k-th of them in calendar order.
ExpectedCount ==
    IF start_year < today[1] \/ (start_year = today[1] /\ start_month <= today[2])
    THEN 12 * (today[1] - start_year) + (today[2] - start_month) + 1
    ELSE 0
ExpectedMonth(k) ==
    LET idx == 12 * start_year + (start_month - 1) + (k - 1)
    IN  <<idx \div 12, (idx % 12) + 1>>

\* C6: the queries are, in order, the calendar months from the start on, one
\* query per month, December followed by January of the next year; a scan that
\* returns has queried every month through the current one, 12*(Y - start_year)
\* + (M - start_month) + 1 of them, or none when the start is after the current
\* month; no answer without data ends the scan, only a failing query does.
C6_EveryMonthScanned ==
    /\ Len(queries) <= ExpectedCount
    /\ \A k \in 1..Len(queries) :
            <<queries[k].year, queries[k].month>> = ExpectedMonth(k)
    /\ disc_pc = "returned" => Len(queries) = ExpectedCount
    /\ (disc_pc # "loop" /\ Len(queries) < ExpectedCount) => disc_pc = "raised"
    /\ disc_pc = "loop" => <<current_year, current_month>> = ExpectedMonth(Len(queries) + 1)

\* C6 witness: the scan from 2023-11 with today in 2024-02 has returned after
\* four queries although no month had data.
C6_Witness ==
    /\ disc_pc = "returned"
    /\ start_year = 2023 /\ start_month = 11 /\ today = <<2024, 2>>
    /\ Len(queries) = 4
    /\ all_dates = <<>>
    /\ <<queries[2].year, queries[2].month>> = <<2023, 12>>
    /\ <<queries[3].year, queries[3].month>> = <<2024, 1>>

\* C11: a call with an empty items list returns two empty dicts at once, for
\* any max_workers (also one a pool would reject): it goes from entry to
\* return without a pool, a thread, a future or an invocation of fetch_fn.
C11_EmptyReturnsAtOnce ==
    (batch >= 1 /\ items = <<>>) =>
        /\ pc \in {"entry", "returned"}
        /\ fut[batch] = <<>>
        /\ num_threads[batch] = 0
        /\ ~shut[batch]
        /\ DOMAIN invoked[batch] = {}
        /\ Returned => ret[batch] = [results |-> EmptyDict, errors |-> EmptyDict]

\* C11 witness: the empty call has returned although max_workers is 0.
C11_Witness ==
    /\ batch = 1 /\ items = <<>> /\ Returned /\ max_workers = 0
    /\ ret[1] = [results |-> EmptyDict, errors |-> EmptyDict]

\* ---- observations on the tasks of a batch ----
Tasks == DOMAIN calls
AlwaysFails(i) == \A k \in 1..Len(Requests(calls[i])) : Is5xx(Requests(calls[i])[k])
FirstSucceeds(i) == NumRequests(calls[i]) >= 1 /\ Is2xx(Requests(calls[i])[1])
Slots == {<<d, t>> : d \in Range(dates), t \in Range(data_types)}
SuccessSlots == {x \in Slots : ~days_results[x[1]][x[2]].raised}
FailureSlots == {x \in Slots : days_results[x[1]][x[2]].raised}

\* C12: the requests issued are at every moment exactly those of the tasks'
\* own calls; and when a batch of N distinct tasks returns in which F tasks
\* were always answered 5xx and the others 2xx on their first request, there
\* are N - F successes, F failures and (N - F) + F * MAX_RETRIES requests.
C12_RequestCount ==
    /\ http_requests = SumOver(Tasks, [i \in Tasks |-> NumRequests(calls[i])])
    /\ (days_pc = "returned" /\ Distinct(dates) /\ Distinct(data_types)
        /\ \A i \in Tasks : AlwaysFails(i) \/ FirstSucceeds(i)) =>
            LET N == Len(dates) * Len(data_types)
                F == Cardinality({i \in Tasks : AlwaysFails(i)})
            IN  /\ Cardinality(Tasks) = N
                /\ Cardinality(SuccessSlots) = N - F
                /\ Cardinality(FailureSlots) = F
                /\ http_requests = (N - F) * 1 + F * MAX_RETRIES

\* C12 witness: four tasks, one always answered 5xx, six requests in all.
C12_Witness ==
    /\ days_pc = "returned" /\ Distinct(dates) /\ Distinct(data_types)
    /\ Cardinality(Tasks) = 4
    /\ Cardinality({i \in Tasks : AlwaysFails(i)}) = 1
    /\ \A i \in Tasks : AlwaysFails(i) \/ FirstSucceeds(i)
    /\ http_requests = 6
    /\ Cardinality(SuccessSlots) = 3

Got401(i) == \E k \in 1..Len(calls[i].log) : Is401(calls[i].log[k])
SlotOf(i) == days_results[fut[1][i].item[1]][fut[1][i].item[2]]

\* C13: a 401 does not abort a batch. When the batch returns, every task that
\* received a 401 holds an AuthenticationError in its own slot, the 401 being
\* its last event (its only request when it was the first answer); the tasks
\* that received no 401 hold their own outcome; and when every task was
\* answered 401 at once the batch has N AuthenticationErrors after N requests.
C13_AuthErrorPerTask ==
    /\ AllTypesKnown(data_types) => days_pc # "raised"
    /\ (days_pc = "returned" /\ Distinct(dates) /\ Distinct(data_types)) =>
        /\ \A i \in Tasks :
            LET c == calls[i] IN
            /\ Got401(i) =>
                /\ SlotOf(i).raised
                /\ SlotOf(i).type = "AuthenticationError"
                /\ Is401(c.log[Len(c.log)])
                /\ Is401(c.log[1]) => NumRequests(c) = 1
            /\ ~Got401(i) =>
                /\ SlotOf(i).type = IF c.pc = "returned" THEN "value" ELSE "APIError"
                /\ c.pc = "returned" <=> Is2xx(c.log[Len(c.log)])
        /\ (\A i \in Tasks : Is401(calls[i].log[1])) =>
                /\ http_requests = Cardinality(Tasks)
                /\ Cardinality(FailureSlots) = Len(dates) * Len(data_types)

\* ---- further observations on one client.get call ----
LastEvent(c) == c.log[Len(c.log)]
AllTransport(c) == \A k \in 1..Len(Requests(c)) : IsTransport(Requests(c)[k])
All5xx(c) == \A k \in 1..Len(Requests(c)) : Is5xx(Requests(c)[k])
Retried(c, i) == i < Len(c.log) /\ c.log[i + 1].ev = "sleep"

\* C14: every 401 response makes get raise AuthenticationError and nothing
\* else, whatever the body of the response.
C14_401IsAuthError ==
    (call.log # <<>> /\ Is401(LastEvent(call))) =>
        /\ call.pc = "raised"
        /\ call.raised.type = "AuthenticationError"

\* C15: the AuthenticationError raised for a 401 response tells the caller to
\* authenticate again, whatever the body of the response.
C15_ReauthMessage ==
    (call.log # <<>> /\ Is401(LastEvent(call))
        /\ call.raised.type = "AuthenticationError") =>
            call.raised.msg = "reauth"

\* C16 as stated: when all max_retries attempts fail with a transport
\* exception, get fails after exactly max_retries attempts with an APIError
\* carrying the URL.
C16_TransportExhaustedIsAPIError ==
    (max_retries >= 1 /\ Terminal(call) /\ AllTransport(call)) =>
        /\ NumRequests(call) = max_retries
        /\ call.pc = "raised"
        /\ call.raised.type = "APIError"
        /\ call.raised.url = get_url(endpoint)

\* C16 as amended: when all max_retries attempts fail with a transport
\* exception, get fails after exactly max_retries attempts by re-raising the
\* transport exception itself, which is no APIError and carries no status
\* code or URL; exhaustion by 5xx responses raises an APIError with the URL.
C16_TransportExhaustedReraises ==
    /\ (max_retries >= 1 /\ Terminal(call) /\ AllTransport(call)) =>
        /\ NumRequests(call) = max_retries
        /\ call.pc = "raised"
        /\ call.raised.type = "RequestException"
        /\ call.raised.url = <<>>
        /\ call.raised.status_code = 0
        /\ call.last_error = call.raised
    /\ (max_retries >= 1 /\ Terminal(call) /\ All5xx(call)) =>
        /\ NumRequests(call) = max_retries
        /\ call.raised.type = "APIError"
        /\ call.raised.url = get_url(endpoint)

\* C16 witness: three transport failures with max_retries = 3, then the raise.
C16_Witness ==
    /\ max_retries = 3 /\ call.pc = "raised"
    /\ NumRequests(call) = 3 /\ AllTransport(call)
    /\ call.raised.type = "RequestException"

\* C17 as stated: after a retryable failure on attempt a, a retry is made if
\* and only if a < max_retries, and the delay before it is 2^a seconds.
C17_RetryIffBelowMax ==
    \A i \in 1..Len(call.log) :
        (call.log[i].ev = "request" /\ IsRetryable(call.log[i])) =>
            /\ Retried(call, i) <=> call.log[i].attempt < max_retries
            /\ Retried(call, i) => call.log[i + 1].secs = Pow2(call.log[i].attempt)

\* C17 as amended: after a retryable failure on attempt a, a retry is made if
\* and only if a < max_retries - 1, and the delay before it is 2^a seconds;
\* otherwise the failure ends the call.
C17_RetryIffBelowLast ==
    \A i \in 1..Len(call.log) :
        (call.log[i].ev = "request" /\ IsRetryable(call.log[i])) =>
            /\ Retried(call, i) <=> call.log[i].attempt < max_retries - 1
            /\ Retried(call, i) => call.log[i + 1].secs = Pow2(call.log[i].attempt)
            /\ ~Retried(call, i) => (i = Len(call.log) /\ call.pc = "raised")

\* C17 witness: with max_retries = 3 the failures of attempts 0 and 1 were
\* retried after 1 and 2 seconds and the failure of attempt 2 was not.
C17_Witness ==
    /\ max_retries = 3 /\ call.pc = "raised" /\ Len(call.log) = 5
    /\ Is5xx(call.log[1]) /\ call.log[2].secs = 1
    /\ IsTransport(call.log[3]) /\ call.log[4].secs = 2
    /\ Is5xx(call.log[5]) /\ call.log[5].attempt = 2

\* C18: a call that has ended has either returned a response obtained from a
\* request it issued, or raised an error; it never returns without a
\* response, for any max_retries including 0.
C18_ResponseOrError ==
    /\ call.pc = "returned" =>
        /\ call.response # NoResponse
        /\ NumRequests(call) >= 1
        /\ call.response.status_code = LastEvent(call).status_code
        /\ call.raised = NoError
    /\ call.pc = "raised" =>
        /\ call.raised # NoError
        /\ call.response = NoResponse

\* ---- observations on the dates a scan accumulates ----
RECURSIVE Flatten(_)
Flatten(ss) == IF ss = <<>> THEN <<>> ELSE Head(ss) \o Flatten(Tail(ss))
MonthOf(d) == <<d[1], d[2]>>
\* The number of dates the first k answers hold.
RECURSIVE DatesBefore(_)
DatesBefore(k) == IF k = 0 THEN 0 ELSE DatesBefore(k - 1) + Len(answers[k])

\* C19: the accumulated list is exactly the concatenation, in scan order, of
\* the lists discover_month returned: the j-th date of the k-th answer stands
\* at position (number of dates of the answers before k) + j, nothing is
\* re-sorted, de-duplicated or dropped, the dates of an earlier month precede
\* those of a later month, and an empty month contributes nothing.
C19_ConcatenationInScanOrder ==
    /\ disc_pc = "returned" => Len(answers) = Len(queries)
    /\ all_dates = Flatten(answers)
    /\ Len(all_dates) = DatesBefore(Len(answers))
    /\ \A k \in 1..Len(answers) : \A j \in 1..Len(answers[k]) :
            /\ all_dates[DatesBefore(k - 1) + j] = answers[k][j]
            /\ MonthOf(answers[k][j]) = <<queries[k].year, queries[k].month>>
    /\ \A p \in 1..Len(all_dates) : \A q \in 1..Len(all_dates) :
            p < q => NotAfter(MonthOf(all_dates[p]), MonthOf(all_dates[q]))

\* C19 witness: four months scanned; the first returned the 20th and the 15th
\* (in that order), the third the 15th twice, the others nothing, and the
\* scan returned the four dates as they came.
C19_Witness ==
    /\ disc_pc = "returned"
    /\ start_year = 2023 /\ start_month = 11 /\ today = <<2024, 2>>
    /\ Len(answers) = 4
    /\ answers[2] = <<>> /\ answers[4] = <<>>
    /\ all_dates = << <<2023, 11, 20>>, <<2023, 11, 15>>,
                      <<2024, 1, 15>>, <<2024, 1, 15>> >>

(***************************************************************************)
(* discover_month on its own (export_days.py:21-57): one call for a year   *)
(* and a month, answered by a body or failing.                             *)
(***************************************************************************)
\* The years of the calls: century years that are and are not leap years, a
\* leap year and a common year.
MonthYears == {1900, 2000, 2023, 2024, 2100}

InitMonth ==
    /\ current_year \in MonthYears
    /\ current_month \in 1..12
    /\ start_year = 0
    /\ start_month = 0
    /\ today = <<0, 0>>
    /\ all_dates = <<>>
    /\ queries = <<>>
    /\ answers = <<>>
    /\ disc_pc = "month_entry"
    /\ disc_raised = NoError
    /\ GetIdle /\ ExecIdle /\ DaysIdle

\* Lines 33-57: the range is computed, the query is issued, and the dates of
\* the answer are returned, or the error of client.get leaves the function.
DiscoverMonth ==
    /\ disc_pc = "month_entry"
    /\ queries' = Append(queries, QueryOf(current_year, current_month))
    /\ \/ \E body \in DiscBodies :
            /\ answers' = Append(answers, DatesOfBody(current_year, current_month, body))
            /\ disc_pc' = "month_returned"
            /\ UNCHANGED disc_raised
       \/ \E e \in DiscErrors :
            /\ disc_pc' = "month_raised"
            /\ disc_raised' = e
            /\ UNCHANGED answers
    /\ UNCHANGED <<start_year, start_month, today, current_year, current_month,
                   all_dates, getVars, execVars, daysVars>>

NextDiscoverMonth == DiscoverMonth

SpecMonth == InitMonth /\ [][NextDiscoverMonth]_vars

\* C20: a monthly query covers the range from the 1st of its month to the
\* last day of that month by the calendar: the 31st or the 30th for the other
\* months, and for February the 29th exactly when the year is divisible by 4
\* and not by 100, or divisible by 400, and the 28th otherwise.
C20_WholeMonthRange ==
    \A k \in 1..Len(queries) :
        LET q == queries[k]
            leap == (q.year % 4 = 0 /\ q.year % 100 # 0) \/ q.year % 400 = 0
        IN  /\ <<q.year, q.month>> = <<current_year, current_month>>
            /\ q.start = <<q.year, q.month, 1>>
            /\ q.end[1] = q.year /\ q.end[2] = q.month
            /\ q.month \in {1, 3, 5, 7, 8, 10, 12} => q.end[3] = 31
            /\ q.month \in {4, 6, 9, 11} => q.end[3] = 30
            /\ q.month = 2 => (q.end[3] = 29 <=> leap)
            /\ q.month = 2 => (q.end[3] = 28 <=> ~leap)

\* C20 witness: February 1900, a year divisible by 4 and by 100 but not by
\* 400, was queried through the 28th and the call returned.
C20_Witness ==
    /\ disc_pc = "month_returned"
    /\ Len(queries) = 1
    /\ queries[1].start = <<1900, 2, 1>>
    /\ queries[1].end = <<1900, 2, 28>>

(***************************************************************************)
(* The export pipelines: export_all (export_all.py:70-82) and cmd_days     *)
(* without a date (cli.py:264-277). Discovery runs in the calling thread,  *)
(* then fetch_days_concurrent is called with the discovered dates.         *)
(***************************************************************************)
\* DISCOVERY_LOOKBACK_YEARS (constants.py:24) is 5; the model scans from
\* January of the current year.
PipeLookback == 0
PipeTodays == {<<2024, 1>>, <<2024, 2>>}
\* The data_types of the pipeline: args.what split at commas, or the list of
\* export_all.
PipeTypeLists == {<<"consumed">>, <<"consumed", "summary">>, <<"bogus">>}

InitPipe ==
    /\ today \in PipeTodays
    /\ start_year = today[1] - PipeLookback
    /\ start_month = 1
    /\ current_year = start_year
    /\ current_month = start_month
    /\ all_dates = <<>>
    /\ queries = <<>>
    /\ answers = <<>>
    /\ disc_pc = "loop"
    /\ disc_raised = NoError
    /\ dates = <<>>
    /\ data_types \in PipeTypeLists
    /\ days_pc = "idle"
    /\ days_results = EmptyDict
    /\ calls = EmptyDict
    /\ http_requests = 0
    /\ days_raised = NoError
    /\ max_workers \in 1..MaxWorkers
    /\ batches = <<>> /\ batch = 0 /\ pc = "idle" /\ fut = <<>>
    /\ num_threads = <<>> /\ yielded = {} /\ results = <<>> /\ errors = <<>>
    /\ invoked = <<>> /\ ret = <<>> /\ shut = <<>>
    /\ GetIdle

\* export_days.py:236-237 and 43-44: the loop condition holds and the calling
\* thread sends the query of the month and blocks in client.get.
PipeSend ==
    /\ disc_pc = "loop"
    /\ NotAfter(<<current_year, current_month>>, today)
    /\ queries' = Append(queries, QueryOf(current_year, current_month))
    /\ disc_pc' = "in_flight"
    /\ UNCHANGED <<start_year, start_month, today, current_year, current_month,
                   all_dates, answers, disc_raised, getVars, execVars, daysVars>>

\* export_days.py:44-57 and 238-244: the query is answered and the loop goes
\* on with the next month, or client.get raises and the scan ends.
PipeAnswer ==
    /\ disc_pc = "in_flight"
    /\ \/ \E body \in DiscBodies :
            LET ds == DatesOfBody(current_year, current_month, body) IN
            /\ Len(Extend(all_dates, ds)) * Len(data_types) <= MaxTasks
            /\ answers' = Append(answers, ds)
            /\ all_dates' = Extend(all_dates, ds)
            /\ current_year' = NextMonth(current_year, current_month)[1]
            /\ current_month' = NextMonth(current_year, current_month)[2]
            /\ disc_pc' = "loop"
            /\ UNCHANGED disc_raised
       \/ \E e \in DiscErrors :
            /\ disc_pc' = "raised"
            /\ disc_raised' = e
            /\ UNCHANGED <<all_dates, answers, current_year, current_month>>
    /\ UNCHANGED <<start_year, start_month, today, queries, getVars, execVars,
                   daysVars>>

PipeDiscReturn == DiscReturn

\* export_all.py:74-79, cli.py:267-277: the statement after the call of
\* auto_discover_months runs once that call has returned.
DiscoveryStarted == disc_pc \in {"loop", "in_flight", "returned"} /\ queries # <<>>
DiscoveryDone == disc_pc = "returned"

\* export_all.py:79-82, cli.py:269-277: with dates, fetch_days_concurrent is
\* called with them; without, the fetch is skipped.
PipeCallDays ==
    /\ DiscoveryDone
    /\ days_pc = "idle"
    /\ IF all_dates # <<>>
       THEN /\ dates' = all_dates
            /\ days_pc' = "entry"
       ELSE /\ days_pc' = "skipped"
            /\ UNCHANGED dates
    /\ UNCHANGED <<data_types, days_results, calls, http_requests, days_raised,
                   getVars, execVars, discVars>>

\* The tasks of the pipeline are never empty, so fetch_concurrent creates
\* its pool.
NextPipe ==
    \/ PipeSend \/ PipeAnswer \/ PipeDiscReturn \/ PipeCallDays
    \/ DaysEnter \/ DaysCreatePool \/ DaysSubmit
    \/ DaysStart \/ DaysRequest \/ DaysSleepDone
    \/ DaysCollect \/ DaysLoopEnd \/ DaysShutdown \/ DaysRegroup

SpecPipe == InitPipe /\ [][NextPipe]_vars

\* ---- observations on a pipeline ----
DiscoveryInFlight == disc_pc = "in_flight"
FetchPhaseBegun == days_pc \notin {"idle", "skipped"}
SomeTaskDispatched ==
    \E b \in 1..Len(fut) : \E i \in 1..Len(fut[b]) : fut[b][i].st # "pending"

\* C21: the discovery queries are issued one at a time, each after the answer
\* of the one before; once fetch_days_concurrent has been entered, and so
\* whenever a task has been dispatched or a batch request has been sent,
\* the scan has returned with every one of its queries answered, and no
\* discovery query is in flight.
C21_DiscoveryBeforeFetch ==
    /\ Len(queries) = Len(answers) + (IF disc_pc \in {"in_flight", "raised"} THEN 1 ELSE 0)
    /\ (FetchPhaseBegun \/ pc # "idle" \/ SomeTaskDispatched \/ http_requests > 0) =>
        /\ ~DiscoveryInFlight
        /\ disc_pc = "returned"
        /\ Len(queries) = ExpectedCount
        /\ Len(answers) = ExpectedCount
        /\ dates = all_dates

\* C21 witness: two months were queried, then a batch runs with one task
\* dispatched and a request of it sent.
C21_Witness ==
    /\ Len(queries) = 2
    /\ pc = "collect"
    /\ SomeTaskDispatched
    /\ http_requests > 0
    /\ \E i \in DOMAIN calls : calls[i].pc = "sleep"

\* ---- observations on duplicate items ----
Duplicated(x) == Occurrences(x) > 1
\* The futures of the call in progress that were created for item x.
FuturesOf(x) == {i \in Futures(batch) : fut[batch][i].item = x}
JustYielded(i) == i \in yielded' \ yielded

\* C22 as stated: on return an item that occurs more than once in the list is
\* a key of exactly one of the two dicts.
C22_DuplicateInOneMap ==
    Returned =>
        \A x \in Range(items) :
            Duplicated(x) =>
                (x \in DOMAIN ret[batch].results) # (x \in DOMAIN ret[batch].errors)

\* C22 as amended: the duplicates collapse per dict. Every collected outcome
\* overwrites the entry of its item in its own dict, results for a value and
\* errors for an exception, and leaves the other dict alone; so on return a
\* duplicated item is a key of results exactly when an occurrence succeeded
\* and of errors exactly when an occurrence failed (of both when both
\* happened), and each entry is the outcome of one of its own occurrences.
C22_CollapsePerMap ==
    /\ [](Returned =>
            \A x \in Range(items) :
                LET r == ret[batch] IN
                /\ x \in DOMAIN r.results <=>
                        \E i \in FuturesOf(x) : ~fut[batch][i].out.raised
                /\ x \in DOMAIN r.errors <=>
                        \E i \in FuturesOf(x) : fut[batch][i].out.raised
                /\ x \in DOMAIN r.results =>
                        r.results[x].by \in FuturesOf(x) /\ ~r.results[x].raised
                /\ x \in DOMAIN r.errors =>
                        r.errors[x].by \in FuturesOf(x) /\ r.errors[x].raised)
    /\ [][\A i \in Futures(batch) :
            (pc = "collect" /\ JustYielded(i) /\ pc' = "collect") =>
                LET f == fut[batch][i] IN
                IF f.out.raised
                THEN /\ errors'[f.item] = f.out
                     /\ results' = results
                     /\ \A y \in DOMAIN errors : y # f.item => errors'[y] = errors[y]
                ELSE /\ results'[f.item] = f.out
                     /\ errors' = errors
                     /\ \A y \in DOMAIN results : y # f.item => results'[y] = results[y]
         ]_vars

\* C22 witness: the list holds one item three times; on return the item is in
\* both dicts, results holding the value of the third occurrence, collected
\* after the value of the first was.
C22_Witness ==
    /\ Returned /\ items = <<1, 1, 1>>
    /\ ~fut[batch][1].out.raised /\ fut[batch][2].out.raised
    /\ ~fut[batch][3].out.raised
    /\ ret[batch].results[1].by = 3
    /\ ret[batch].errors[1].by = 2

\* ---- observations on the session ----
LastToken == TokenCalls[Len(TokenCalls)]
BearerOf(tok) == <<"Bearer ", tok>>

\* C23: while the workers of a batch run their client.get calls, succeeding,
\* retrying or failing in any interleaving, the Authorization header of the
\* session stays "Bearer <token>" of the last set_token call, and every
\* request went out with that header.
C23_AuthorizationHeaderKept ==
    /\ "Authorization" \in DOMAIN session_headers
    /\ session_headers["Authorization"] = BearerOf(LastToken)
    /\ \A h \in sent :
            "Authorization" \in DOMAIN h /\ h["Authorization"] = BearerOf(LastToken)
    /\ sent # {} <=> http_requests > 0

\* C23 witness: two workers at once, one asleep before a retry and one whose
\* call has failed, after at least three requests.
C23_Witness ==
    /\ http_requests >= 3
    /\ sent = {[k \in {"Authorization"} |-> <<"Bearer ", "token2">>]}
    /\ \E i \in DOMAIN calls : \E j \in DOMAIN calls :
            /\ calls[i].pc = "sleep"
            /\ calls[j].pc = "raised"
            /\ fut[1][i].st = "running"

\* ---- observations on the writes to the two dicts ----
Written == (DOMAIN results) \cup (DOMAIN errors)
WriteStep == batch' = batch /\ (results' # results \/ errors' # errors)

\* C24: in a call with pairwise distinct items every write to results or
\* errors is a step of the calling thread inside its as_completed loop, in
\* which no worker moves; it stores one entry under a key neither dict held
\* before and changes no other entry. So each key is written once, the writes
\* come one after the other, and there are as many entries as collected
\* futures.
C24_SingleWriterPerKey ==
    /\ [][(Distinct(items) /\ WriteStep) =>
            /\ pc = "collect"
            /\ fut' = fut /\ num_threads' = num_threads /\ invoked' = invoked
            /\ \E i \in Futures(batch) :
                    /\ yielded' = yielded \cup {i} /\ i \notin yielded
                    /\ fut[batch][i].item \notin Written
                    /\ (DOMAIN results') \cup (DOMAIN errors') =
                            Written \cup {fut[batch][i].item}
            /\ (DOMAIN results') \cap (DOMAIN errors') = {}
            /\ \A x \in DOMAIN results : results'[x] = results[x]
            /\ \A x \in DOMAIN errors : errors'[x] = errors[x]
         ]_vars
    /\ [](Distinct(items) => Cardinality(Written) = Cardinality(yielded))

\* C24 witness: three distinct items on two workers; one outcome is stored
\* while both workers are inside fetch_fn.
C24_Witness ==
    /\ Distinct(items) /\ Len(items) = 3
    /\ pc = "collect"
    /\ Cardinality(Running(batch)) = 2
    /\ Cardinality(Written) = 1

\* ---- observations on the workers of a batch ----
\* A running worker is inside client.get: waiting for the answer of the
\* request of its attempt, or asleep before its next attempt.
InRequest(i) == calls[i].pc = "loop"
InBackoff(i) == calls[i].pc = "sleep"
Changed(i) == i \in DOMAIN calls' /\ (i \notin DOMAIN calls \/ calls'[i] # calls[i])

\* C25: while a worker is blocked in a request or in a backoff sleep, every
\* other running worker can take its own next step, the answer of its
\* request or the end of its sleep, a queued item is taken as soon as a
\* thread of the pool is free, and a step of one worker leaves the frame of
\* every other worker as it was.
C25_WorkersIndependent ==
    /\ [](\A b \in 1..Len(fut) : \A i \in Running(b) :
            (InRequest(i) \/ InBackoff(i)) =>
                /\ \A j \in Running(b) \ {i} :
                        /\ InRequest(j) => ENABLED DaysRequestBy(b, j)
                        /\ InBackoff(j) => ENABLED DaysSleepDoneBy(b, j)
                /\ \A k \in Pending(b) :
                        ((\A j \in Pending(b) : k <= j)
                            /\ Cardinality(Running(b)) < num_threads[b]) =>
                                ENABLED DaysStartOf(b, k))
    /\ [][\A i \in DOMAIN calls : \A j \in DOMAIN calls' :
            (i # j /\ Changed(j)) => calls'[i] = calls[i]]_vars

\* C25 witness: three tasks on two workers; the first task is still asleep
\* after its first attempt while the second and the third have been run to
\* the end by the other worker.
C25_Witness ==
    /\ max_workers = 2 /\ Len(fut) = 1 /\ Len(fut[1]) = 3
    /\ fut[1][1].st = "running" /\ InBackoff(1) /\ Len(calls[1].log) = 2
    /\ fut[1][2].st = "finished" /\ fut[1][3].st = "finished"

(***************************************************************************)
(* fetch_concurrent under fair scheduling: the calling thread and the pool *)
(* threads keep running, and every invocation of fetch_fn terminates.      *)
(***************************************************************************)
CallerStep ==
    ReturnEmpty \/ CreatePool \/ Submit \/ Collect \/ LoopEnd \/ Shutdown \/ NextCall

SpecLive ==
    /\ Init /\ [][Next]_vars
    /\ WF_vars(CallerStep)
    /\ WF_vars(Start)
    /\ WF_vars(Finish)

\* Every future of the call in progress is finished and its item is a key of
\* one of the dicts the call handed back.
AllRecorded ==
    IF Len(ret) >= batch /\ Len(fut[batch]) = Len(items)
    THEN \A i \in Futures(batch) :
            /\ fut[batch][i].st = "finished"
            /\ fut[batch][i].item \in
                    (DOMAIN ret[batch].results) \cup (DOMAIN ret[batch].errors)
    ELSE FALSE

\* C26: when every invocation of fetch_fn terminates, a fetch_concurrent call
\* that is entered with a usable max_workers eventually returns, also with
\* more items than workers, and by then every one of its items has been
\* submitted, picked up by a worker, finished and recorded in one of the
\* returned dicts: none is left waiting.
C26_EventuallyReturns ==
    (pc = "entry" /\ max_workers >= 1) ~> (pc = "returned" /\ AllRecorded)

\* C26 witness: a call with three items and one worker has returned with all
\* three recorded.
C26_Witness ==
    /\ Returned /\ batch = 1 /\ max_workers = 1 /\ Len(items) = 3
    /\ Cardinality((DOMAIN ret[1].results) \cup (DOMAIN ret[1].errors)) = 3

\* C27: for any sequence of outcomes, 5xx responses and transport exceptions
\* mixed included, a call with max_retries = m >= 1 issues at most m requests
\* and sleeps at most m - 1 times, the k-th request being attempt k - 1
\* whatever the kinds of the failures before it; a call that has ended has
\* issued at least one request.
C27_AttemptsBounded ==
    max_retries >= 1 =>
        /\ NumRequests(call) <= max_retries
        /\ Len(Sleeps(call)) <= max_retries - 1
        /\ Len(Sleeps(call)) <= NumRequests(call)
        /\ Terminal(call) => NumRequests(call) >= 1
        /\ \A k \in 1..NumRequests(call) : Requests(call)[k].attempt = k - 1
        /\ \A k \in 1..Len(Sleeps(call)) :
                /\ Sleeps(call)[k].attempt = k - 1
                /\ IsRetryable(Requests(call)[k])

\* C27 witness: a transport exception, a 5xx response and a transport
\* exception use up max_retries = 3.
C27_Witness ==
    /\ max_retries = 3 /\ call.pc = "raised"
    /\ NumRequests(call) = 3 /\ Len(Sleeps(call)) = 2
    /\ IsTransport(Requests(call)[1])
    /\ Is5xx(Requests(call)[2])
    /\ IsTransport(Requests(call)[3])

\* C28: when the last allowed attempt fails retryably, the error raised is
\* the one of that attempt: after a 5xx response an APIError with the status
\* of that response and the URL, after a transport exception that very
\* exception, whatever the failures of the earlier attempts were.
C28_FinalErrorIsLast ==
    (call.pc = "raised" /\ IsRetryable(LastEvent(call))) =>
        LET e == LastEvent(call) IN
        /\ e.attempt = max_retries - 1
        /\ Is5xx(e) =>
                /\ call.raised.type = "APIError"
                /\ call.raised.status_code = e.status_code
                /\ call.raised.url = get_url(endpoint)
        /\ IsTransport(e) =>
                /\ call.raised.type = "RequestException"
                /\ call.raised.msg = e.exc
        /\ call.last_error = call.raised

\* C28 witness: a 500, a connection error and a 503 with max_retries = 3; the
\* APIError raised carries 503.
C28_Witness ==
    /\ max_retries = 3 /\ call.pc = "raised" /\ NumRequests(call) = 3
    /\ Requests(call)[1].status_code = 500
    /\ Requests(call)[2].exc = "ConnectionError"
    /\ Requests(call)[3].status_code = 503
    /\ call.raised.status_code = 503

\* C29: when the query of a month fails, auto_discover_months ends at once
\* with that error: the failed query is the last one, the later months are
\* never queried, and the function never returns, so the dates of the earlier
\* months do not reach the caller.
C29_FailedQueryEndsScan ==
    /\ [](disc_pc = "raised" =>
            /\ disc_raised \in DiscErrors
            /\ Len(queries) = Len(answers) + 1
            /\ <<queries[Len(queries)].year, queries[Len(queries)].month>>
                    = <<current_year, current_month>>
            /\ all_dates = Flatten(answers))
    /\ [](disc_pc # "raised" => disc_raised = NoError /\ Len(queries) = Len(answers))
    /\ [][disc_pc = "raised" =>
            /\ disc_pc' = "raised"
            /\ queries' = queries
            /\ disc_raised' = disc_raised]_vars

\* C29 witness: of four months to scan the first gave two dates and the
\* query of the second failed; the scan has raised after two queries.
C29_Witness ==
    /\ disc_pc = "raised"
    /\ ExpectedCount = 4
    /\ Len(queries) = 2
    /\ Len(all_dates) = 2
    /\ disc_raised.type = "APIError"

\* C30: a response is handed back to the caller as the result of the call,
\* ending it with no retry, exactly when its status is not 401, not in
\* 500..599 and not another status in 400..499; a 1xx or 3xx response is
\* returned in the same way as a 2xx response.
C30_ReturnedIffNotError ==
    \A i \in 1..Len(call.log) :
        LET e == call.log[i] IN
        (e.ev = "request" /\ e.kind = "response") =>
            /\ (/\ i = Len(call.log)
                /\ call.pc = "returned"
                /\ call.response.status_code = e.status_code
                /\ call.raised = NoError)
                    <=> ~(e.status_code = 401
                            \/ e.status_code \in 500..599
                            \/ e.status_code \in 400..499)
            /\ e.status_code \in (100..199) \cup (200..299) \cup (300..399) =>
                    (call.pc = "returned" /\ ~Retried(call, i))

\* C30 witness: after a 5xx answer and a sleep the second attempt is
\* answered 100 Continue, which is returned.
C30_Witness ==
    /\ call.pc = "returned" /\ Len(call.log) = 3
    /\ Is5xx(call.log[1])
    /\ call.log[3].status_code = 100
    /\ call.response.status_code = 100

====
